---- MODULE Spec2Model ----
(***************************************************************************)
(* Model of the food-recipes backend: the Gin request handlers of          *)
(* backend/handlers (recipes, social interactions, Chapa payments) running *)
(* against the PostgreSQL schema of backend/schema.sql (tables, UNIQUE     *)
(* constraints and the three triggers).                                    *)
(*                                                                         *)
(* Every handler is a sequence of database round trips.  One action of the *)
(* model is one round trip together with the Go code that follows it up to *)
(* the next round trip; a statement and the triggers it fires are one      *)
(* atomic step (PostgreSQL runs them in the statement's transaction),      *)
(* except in InsertImage and SpecRace, which separate a trigger's read     *)
(* from the commit to show what a concurrent transaction can do between.   *)
(* Rows written inside an open transaction stay with the request (tx) and  *)
(* reach the tables, which hold what is committed, when it commits.        *)
(* Concurrent requests are the request slots of Procs; their steps         *)
(* interleave freely.                                                      *)
(***************************************************************************)
EXTENDS Integers, Sequences, FiniteSets, TLC

\* ------------------------------------------------------------------ universe

\* Users holds every account; Clients are the accounts that issue requests
\* (the third account has rated "r1" before the model starts: three ratings
\* are needed for an average that is not a multiple of 0.5).  NoUser is a
\* request without "user_id" in its context.  "r1" exists from the start,
\* the other recipes are created on the way; requests name a recipe of
\* Targets.
Users == {"u1", "u2", "u3"}
Clients == {"u1", "u2"}
NoUser == "anon"
SeedRecipes == {"r1"}
NewRecipes == {"r2", "r3"}
RecipeIds == SeedRecipes \cup NewRecipes
Targets == {"r1", "r2"}
Procs == {"p1", "p2"}

\* Row identifiers stand for the uuid_generate_v4() defaults.  A row of a
\* join table is identified by its (user_id, recipe_id) and a number telling
\* apart the rows ever created for that pair; a fresh number is one that no
\* row of the table and no request still holding a row carries.
MaxRowId == 3
RowIds == 1..MaxRowId
NoRow == [id |-> 0, user_id |-> NoUser, recipe_id |-> "none"]

VARIABLES
    recipes,      \* recipes table: RecipeIds -> row, "exists" tells presence
    ingredients,  \* ingredients table: set of rows
    steps,        \* steps table: set of rows
    images,       \* recipe_images table: set of rows
    likes,        \* likes table: set of rows [id, user_id, recipe_id]
    bookmarks,    \* bookmarks table: set of rows [id, user_id, recipe_id]
    ratings,      \* ratings table: set of rows [id, user_id, recipe_id, rating]
    purchases,    \* purchases table: set of rows
    proc          \* per request slot: the handler running, its position, locals

vars == <<recipes, ingredients, steps, images, likes, bookmarks, ratings,
          purchases, proc>>

\* ------------------------------------------------------------------ helpers

Min(S) == CHOOSE x \in S : \A y \in S : x <= y

\* WHERE user_id = ? AND recipe_id = ?
RowsOf(table, u, r) == {x \in table : x.user_id = u /\ x.recipe_id = r}

\* .First(&row): the first matching row in primary-key order.
First(rows) == CHOOSE x \in rows : \A y \in rows : x.id <= y.id

HeldRows == {proc[p].row : p \in Procs}
FreshId(table, u, r) ==
    Min(RowIds \ {x.id : x \in RowsOf(table \cup HeldRows, u, r)})

\* ------------------------------------------------------------------ recipes

\* models.Recipe / CREATE TABLE recipes.  average_rating is DECIMAL(3,2) and
\* is kept in hundredths.
AbsentRecipe ==
    [exists |-> FALSE, user_id |-> NoUser, price |-> 0, is_published |-> FALSE,
     deleted |-> FALSE, like_count |-> 0, average_rating |-> 0,
     total_ratings |-> 0, featured_image_url |-> "", category_id |-> "",
     created_at |-> 0]

\* "r1" as CreateRecipe and one AddRating by "u3" leave it.
SeedRating == [id |-> 1, user_id |-> "u3", recipe_id |-> "r1", rating |-> 1]
SeedRecipe(owner, price) ==
    [AbsentRecipe EXCEPT !.exists = TRUE, !.user_id = owner, !.price = price,
                         !.is_published = TRUE, !.average_rating = 100,
                         !.total_ratings = 1, !.category_id = "c1",
                         !.created_at = 1]

\* gorm's soft-delete scope: every query through the ORM on models.Recipe
\* carries "deleted_at IS NULL".
Visible(id) == recipes[id].exists /\ ~recipes[id].deleted

\* ------------------------------------------------------------------ requests

\* A request slot: op is the handler, pc its next round trip; user, recipe,
\* val (a number of the body) and arg (a string of the query, or the
\* provider's answer) are its inputs, row the row it holds, calls the
\* outbound HTTP requests it has made, code and out the response.
\* body is the JSON body of CreateRecipe, tx the rows the request's open
\* transaction has written and not yet committed; filters is the query of a
\* listing (page_param and limit_param as sent, <<>> when absent) and list
\* its response.
NoFilters == [page_param |-> <<>>, limit_param |-> <<>>, page |-> 0, limit |-> 0,
              category_id |-> "", ingredient |-> <<>>, min_rating |-> 0]
NoList == [recipes |-> <<>>, total |-> 0, page |-> 0, limit |-> 0, pages |-> 0]
NoBody == [title |-> "", description |-> "", preparation_time |-> 0,
           cooking_time |-> 0, servings |-> 0, difficulty_level |-> "",
           category_id |-> "", price |-> 0, ingredients |-> 0, steps |-> <<>>,
           featured_image_url |-> "", images |-> <<>>]
NoWrites == [recipe |-> AbsentRecipe, ingredients |-> {}, steps |-> {}, images |-> {}]
Idle == [op |-> "idle", pc |-> "done", user |-> NoUser, recipe |-> "r1",
         val |-> 0, arg |-> "", row |-> NoRow, calls |-> 0, code |-> 0, out |-> "",
         body |-> NoBody, tx |-> NoWrites, filters |-> NoFilters, list |-> NoList]

Ready(p) == proc[p].pc = "done"

Begin(p, op, pc, u, r, v) ==
    proc' = [proc EXCEPT ![p] = [Idle EXCEPT !.op = op, !.pc = pc, !.user = u,
                                             !.recipe = r, !.val = v]]

\* c.JSON(code, ...) followed by return.
Respond(p, op, code, out) ==
    proc' = [proc EXCEPT ![p] = [Idle EXCEPT !.op = op, !.code = code, !.out = out]]

\* The same for a request turned away at its checks; the caller and the
\* target it named stay on record with the response.
Reject(p, op, code, out, u, r) ==
    proc' = [proc EXCEPT ![p] = [Idle EXCEPT !.op = op, !.code = code, !.out = out,
                                             !.user = u, !.recipe = r]]

\* The same once the request has locals; of a finished request only the
\* response is kept.
Finish(p, code, out) ==
    proc' = [proc EXCEPT ![p] = [Idle EXCEPT !.op = proc[p].op, !.code = code,
                                             !.out = out]]

\* The same, the request's row still in scope when the response is written.
FinishWith(p, code, out, row) ==
    proc' = [proc EXCEPT ![p] = [Idle EXCEPT !.op = proc[p].op, !.code = code,
                                             !.out = out, !.row = row]]

Goto(p, pc) == proc' = [proc EXCEPT ![p].pc = pc]

\* ------------------------------------------------------------------ likes

UniqueUnchecked(table, u, r) == FALSE

\* UNIQUE(user_id, recipe_id) of likes, bookmarks and ratings.
UniqueViolation(table, u, r) == RowsOf(table, u, r) # {}

LikeCountUntouched(rs, tg_op, recipe_id) == rs

\* update_recipe_like_count(), AFTER INSERT OR DELETE ON likes FOR EACH ROW.
update_recipe_like_count(rs, tg_op, recipe_id) ==
    IF tg_op = "INSERT"
    THEN [rs EXCEPT ![recipe_id].like_count = @ + 1]
    ELSE IF tg_op = "DELETE"
    THEN [rs EXCEPT ![recipe_id].like_count = @ - 1]
    ELSE rs

\* ToggleLike up to the recipe lookup.
ToggleLikeBegin(p) ==
    /\ Ready(p)
    /\ \E u \in Clients \cup {NoUser}, r \in Targets :
          IF u = NoUser
          THEN Respond(p, "ToggleLike", 401, "User not authenticated")
          ELSE IF ~Visible(r)
          THEN Respond(p, "ToggleLike", 404, "Recipe not found")
          ELSE Begin(p, "ToggleLike", "like_lookup", u, r, 0)
    /\ UNCHANGED <<recipes, ingredients, steps, images, likes, bookmarks,
                   ratings, purchases>>

\* h.DB.Where("user_id = ? AND recipe_id = ?").First(&existingLike)
ToggleLikeLookup(p) ==
    /\ proc[p].op = "ToggleLike" /\ proc[p].pc = "like_lookup"
    /\ LET found == RowsOf(likes, proc[p].user, proc[p].recipe) IN
          IF found = {}
          THEN Goto(p, "like_create")
          ELSE proc' = [proc EXCEPT ![p].pc = "like_delete", ![p].row = First(found)]
    /\ UNCHANGED <<recipes, ingredients, steps, images, likes, bookmarks,
                   ratings, purchases>>

\* h.DB.Create(&like) with its trigger.
ToggleLikeCreate(p) ==
    /\ proc[p].op = "ToggleLike" /\ proc[p].pc = "like_create"
    /\ LET u == proc[p].user
           r == proc[p].recipe
       IN IF UniqueViolation(likes, u, r)
          THEN /\ Finish(p, 500, "Failed to like recipe")
               /\ UNCHANGED <<likes, recipes>>
          ELSE /\ likes' = likes \cup
                     {[id |-> FreshId(likes, u, r), user_id |-> u, recipe_id |-> r]}
               /\ recipes' = update_recipe_like_count(recipes, "INSERT", r)
               /\ Finish(p, 200, "liked")
    /\ UNCHANGED <<ingredients, steps, images, bookmarks, ratings, purchases>>

\* h.DB.Delete(&existingLike): DELETE FROM likes WHERE id = ?, the trigger
\* firing once per deleted row.
ToggleLikeDelete(p) ==
    /\ proc[p].op = "ToggleLike" /\ proc[p].pc = "like_delete"
    /\ IF proc[p].row \in likes
       THEN /\ likes' = likes \ {proc[p].row}
            /\ recipes' = update_recipe_like_count(recipes, "DELETE", proc[p].row.recipe_id)
       ELSE UNCHANGED <<likes, recipes>>
    /\ Finish(p, 200, "unliked")
    /\ UNCHANGED <<ingredients, steps, images, bookmarks, ratings, purchases>>

\* ------------------------------------------------------------------ bookmarks

\* ToggleBookmark up to the recipe lookup.
ToggleBookmarkBegin(p) ==
    /\ Ready(p)
    /\ \E u \in Clients \cup {NoUser}, r \in Targets :
          IF u = NoUser
          THEN Respond(p, "ToggleBookmark", 401, "User not authenticated")
          ELSE IF ~Visible(r)
          THEN Respond(p, "ToggleBookmark", 404, "Recipe not found")
          ELSE Begin(p, "ToggleBookmark", "bookmark_lookup", u, r, 0)
    /\ UNCHANGED <<recipes, ingredients, steps, images, likes, bookmarks,
                   ratings, purchases>>

\* h.DB.Where("user_id = ? AND recipe_id = ?").First(&existingBookmark)
ToggleBookmarkLookup(p) ==
    /\ proc[p].op = "ToggleBookmark" /\ proc[p].pc = "bookmark_lookup"
    /\ LET found == RowsOf(bookmarks, proc[p].user, proc[p].recipe) IN
          IF found = {}
          THEN Goto(p, "bookmark_create")
          ELSE proc' = [proc EXCEPT ![p].pc = "bookmark_delete", ![p].row = First(found)]
    /\ UNCHANGED <<recipes, ingredients, steps, images, likes, bookmarks,
                   ratings, purchases>>

\* h.DB.Create(&bookmark)
ToggleBookmarkCreate(p) ==
    /\ proc[p].op = "ToggleBookmark" /\ proc[p].pc = "bookmark_create"
    /\ LET u == proc[p].user
           r == proc[p].recipe
       IN IF UniqueViolation(bookmarks, u, r)
          THEN /\ Finish(p, 500, "Failed to bookmark recipe")
               /\ UNCHANGED bookmarks
          ELSE /\ bookmarks' = bookmarks \cup
                     {[id |-> FreshId(bookmarks, u, r), user_id |-> u, recipe_id |-> r]}
               /\ Finish(p, 200, "Recipe bookmarked")
    /\ UNCHANGED <<recipes, ingredients, steps, images, likes, ratings, purchases>>

\* h.DB.Delete(&existingBookmark): DELETE FROM bookmarks WHERE id = ?
ToggleBookmarkDelete(p) ==
    /\ proc[p].op = "ToggleBookmark" /\ proc[p].pc = "bookmark_delete"
    /\ bookmarks' = bookmarks \ {proc[p].row}
    /\ Finish(p, 200, "Bookmark removed")
    /\ UNCHANGED <<recipes, ingredients, steps, images, likes, ratings, purchases>>

\* ------------------------------------------------------------------ ratings

\* SQL NULL in an integer column or expression.
Null == -1

RatingsOf(table, recipe_id) == {x \in table : x.recipe_id = recipe_id}

\* SUM(rating) over the rows.
RECURSIVE SumRatings(_)
SumRatings(rows) ==
    IF rows = {} THEN 0
    ELSE LET x == CHOOSE y \in rows : TRUE IN x.rating + SumRatings(rows \ {x})

\* AVG(rating)::DECIMAL(3,2) in hundredths: numeric rounding, half away from
\* zero; NULL over no rows.
AvgRating(rows) ==
    IF rows = {} THEN Null
    ELSE (200 * SumRatings(rows) + Cardinality(rows)) \div (2 * Cardinality(rows))

\* update_recipe_rating(), AFTER INSERT OR UPDATE OR DELETE ON ratings FOR
\* EACH ROW.  The function reads NEW.recipe_id whatever the operation; the
\* caller passes what NEW.recipe_id evaluates to.
update_recipe_rating(rs, table, new_recipe_id) ==
    IF new_recipe_id \in RecipeIds /\ rs[new_recipe_id].exists
    THEN [rs EXCEPT ![new_recipe_id].average_rating =
                        AvgRating(RatingsOf(table, new_recipe_id)),
                    ![new_recipe_id].total_ratings =
                        Cardinality(RatingsOf(table, new_recipe_id))]
    ELSE rs

\* NEW in a row-level trigger: the new row for INSERT and UPDATE, NULL for
\* DELETE.
NewRecipeId(tg_op, row) == IF tg_op = "DELETE" THEN "NULL" ELSE row.recipe_id

\* binding:"required,min=1,max=5" on the rating input.
RatingInputs == {0, 1, 2, 6}
ValidRating(v) == v # 0 /\ v >= 1 /\ v <= 5

\* AddRating up to the recipe lookup.
AddRatingBegin(p) ==
    /\ Ready(p)
    /\ \E u \in Clients \cup {NoUser}, r \in Targets, v \in RatingInputs :
          IF u = NoUser
          THEN Respond(p, "AddRating", 401, "User not authenticated")
          ELSE IF ~ValidRating(v)
          THEN Respond(p, "AddRating", 400, "bind error")
          ELSE IF ~Visible(r)
          THEN Respond(p, "AddRating", 404, "Recipe not found")
          ELSE Begin(p, "AddRating", "rating_lookup", u, r, v)
    /\ UNCHANGED <<recipes, ingredients, steps, images, likes, bookmarks,
                   ratings, purchases>>

\* h.DB.Where("user_id = ? AND recipe_id = ?").First(&existingRating), then
\* existingRating.Rating = ratingInput.Rating on the row found.
AddRatingLookup(p) ==
    /\ proc[p].op = "AddRating" /\ proc[p].pc = "rating_lookup"
    /\ LET found == RowsOf(ratings, proc[p].user, proc[p].recipe) IN
          IF found = {}
          THEN Goto(p, "rating_create")
          ELSE proc' = [proc EXCEPT ![p].pc = "rating_save",
                                    ![p].row = [First(found) EXCEPT !.rating = proc[p].val]]
    /\ UNCHANGED <<recipes, ingredients, steps, images, likes, bookmarks,
                   ratings, purchases>>

\* INSERT INTO ratings with its trigger; `existing` is the handler's
\* existingRating, still in scope when it responds.
InsertRating(p, row, existing, failure) ==
    IF UniqueViolation(ratings, row.user_id, row.recipe_id)
    THEN /\ Finish(p, 500, failure)
         /\ UNCHANGED <<ratings, recipes>>
    ELSE /\ ratings' = ratings \cup {row}
         /\ recipes' = update_recipe_rating(recipes, ratings \cup {row},
                                            NewRecipeId("INSERT", row))
         /\ FinishWith(p, 200, "Rating added successfully", existing)

\* h.DB.Create(&rating)
AddRatingCreate(p) ==
    /\ proc[p].op = "AddRating" /\ proc[p].pc = "rating_create"
    /\ LET u == proc[p].user
           r == proc[p].recipe
       IN InsertRating(p, [id |-> FreshId(ratings, u, r), user_id |-> u,
                           recipe_id |-> r, rating |-> proc[p].val],
                       NoRow, "Failed to add rating")
    /\ UNCHANGED <<ingredients, steps, images, likes, bookmarks, purchases>>

SaveRowKeepsOld(table, row) == table \cup {row}

\* UPDATE ratings SET ... WHERE id = ?, the row written whole.
SaveRow(table, row) == {x \in table : x.id # row.id \/ x.user_id # row.user_id
                                      \/ x.recipe_id # row.recipe_id} \cup {row}

HasRow(table, row) ==
    \E x \in table : x.id = row.id /\ x.user_id = row.user_id
                     /\ x.recipe_id = row.recipe_id

\* h.DB.Save(&existingRating): the UPDATE by primary key and, when it matches
\* no row, gorm's INSERT ... ON CONFLICT (id) DO UPDATE.
AddRatingSave(p) ==
    /\ proc[p].op = "AddRating" /\ proc[p].pc = "rating_save"
    /\ IF HasRow(ratings, proc[p].row)
       THEN /\ ratings' = SaveRow(ratings, proc[p].row)
            /\ recipes' = update_recipe_rating(recipes, SaveRow(ratings, proc[p].row),
                                               NewRecipeId("UPDATE", proc[p].row))
            /\ FinishWith(p, 200, "Rating added successfully", proc[p].row)
       ELSE InsertRating(p, proc[p].row, proc[p].row, "Failed to update rating")
    /\ UNCHANGED <<ingredients, steps, images, likes, bookmarks, purchases>>

\* The same two statements, Create and Save, as a concurrent request meets
\* them.  The handler runs each in its own implicit transaction under READ
\* COMMITTED: the row trigger's UPDATE recipes evaluates its AVG and COUNT
\* subqueries on the snapshot taken when that UPDATE starts (the committed
\* rows and the statement's own row), waits if another transaction holds
\* the recipe row, and then writes the values of its own snapshot.
RatingSnapshot(row) ==
    update_recipe_rating(recipes, SaveRow(ratings, row),
                         NewRecipeId("INSERT", row))[row.recipe_id]

\* The statement up to the trigger's read.
AddRatingStatement(p) ==
    /\ proc[p].op = "AddRating" /\ proc[p].pc \in {"rating_create", "rating_save"}
    /\ LET u == proc[p].user
           r == proc[p].recipe
           row == IF proc[p].pc = "rating_create"
                  THEN [id |-> FreshId(ratings, u, r), user_id |-> u,
                        recipe_id |-> r, rating |-> proc[p].val]
                  ELSE proc[p].row
       IN IF proc[p].pc = "rating_create" /\ UniqueViolation(ratings, u, r)
          THEN Finish(p, 500, "Failed to add rating")
          ELSE proc' = [proc EXCEPT ![p].pc = "rating_commit", ![p].row = row,
                                    ![p].tx.recipe = RatingSnapshot(row)]
    /\ UNCHANGED <<recipes, ingredients, steps, images, likes, bookmarks,
                   ratings, purchases>>

\* The trigger's UPDATE is applied and the statement commits; an insert
\* whose key another transaction has committed meanwhile fails instead.
AddRatingCommit(p) ==
    /\ proc[p].op = "AddRating" /\ proc[p].pc = "rating_commit"
    /\ LET row == proc[p].row
           r == row.recipe_id
       IN IF \E x \in RowsOf(ratings, row.user_id, r) : x.id # row.id
          THEN /\ Finish(p, 500, "Failed to add rating")
               /\ UNCHANGED <<ratings, recipes>>
          ELSE /\ ratings' = SaveRow(ratings, row)
               /\ recipes' = [recipes EXCEPT
                                ![r].average_rating = proc[p].tx.recipe.average_rating,
                                ![r].total_ratings = proc[p].tx.recipe.total_ratings]
               /\ Finish(p, 200, "Rating added successfully")
    /\ UNCHANGED <<ingredients, steps, images, likes, bookmarks, purchases>>

\* A ratings row is deleted (no handler does it; the ON DELETE CASCADE of
\* ratings.user_id does) and the row trigger fires with NEW unassigned.
\* Reading NEW.recipe_id then gives NULL (PostgreSQL 11 and later) or raises
\* and aborts the DELETE (earlier servers).
RatingRowDelete ==
    \E row \in ratings :
        /\ \/ UNCHANGED <<ratings, recipes>>
           \/ /\ ratings' = ratings \ {row}
              /\ recipes' = update_recipe_rating(recipes, ratings \ {row},
                                                 NewRecipeId("DELETE", row))
        /\ UNCHANGED <<ingredients, steps, images, likes, bookmarks, purchases, proc>>

\* ------------------------------------------------------------------ payments

\* paymentRequest.Amount, binding:"required,min=0.01"; "r1" costs 5.
AmountInputs == {0, 7}
ValidAmount(a) == a # 0 /\ a > 0

\* What can happen between the Purchase insert and the end of
\* InitializePayment, in the order of the code.
InitOutcomes == {"marshal error", "request error", "transport error",
                 "read error", "parse error", "rejected", "success"}
InitFailure(o) ==
    IF o = "marshal error" THEN [code |-> 500, out |-> "Failed to prepare payment", calls |-> 0]
    ELSE IF o = "request error" THEN [code |-> 500, out |-> "Failed to initialize payment", calls |-> 0]
    ELSE IF o = "transport error" THEN [code |-> 500, out |-> "Payment service unavailable", calls |-> 1]
    ELSE IF o = "read error" THEN [code |-> 500, out |-> "Failed to read payment response", calls |-> 1]
    ELSE IF o = "parse error" THEN [code |-> 500, out |-> "Failed to parse payment response", calls |-> 1]
    ELSE [code |-> 400, out |-> "provider message", calls |-> 1]

\* txRef := fmt.Sprintf("recipe-%s-%d", recipeID, time.Now().UnixNano()): one
\* reference per request, here named after the row the request creates.
NoTx == <<>>
TxRef(row) == <<row.recipe_id, row.user_id, row.id>>

SamePurchase(x, row) ==
    x.id = row.id /\ x.user_id = row.user_id /\ x.recipe_id = row.recipe_id

ExistingCompletedPurchase(u, r) == {x \in RowsOf(purchases, u, r) : x.status = "completed"}

\* h.DB.Where("user_id = ? AND recipe_id = ?", userID, recipeID).First(&existingPurchase)
ExistingPurchase(u, r) == RowsOf(purchases, u, r)

DeletePurchaseSkipped(table, row) == table

\* h.DB.Delete(&purchase): DELETE FROM purchases WHERE id = ?
DeletePurchase(table, row) == {x \in table : ~SamePurchase(x, row)}

SavePurchaseKeepsOld(table, row) == table \cup {row}

\* h.DB.Save(&purchase): every column written, WHERE id = ? (inserted when
\* no row has the id).
SavePurchase(table, row) == {x \in table : ~SamePurchase(x, row)} \cup {row}

InsertPurchaseOncePerPair(table, row) ==
    IF RowsOf(table, row.user_id, row.recipe_id) # {} THEN table ELSE table \cup {row}

\* INSERT INTO purchases: the table has a primary key and no UNIQUE(user_id,
\* recipe_id), so a row is added whatever rows the pair already has.
InsertPurchase(table, row) == table \cup {row}

\* InitializePayment up to the recipe lookup.
InitializePaymentBegin(p) ==
    /\ Ready(p)
    /\ \E u \in Clients \cup {NoUser}, r \in Targets, a \in AmountInputs :
          IF u = NoUser
          THEN Respond(p, "InitializePayment", 401, "User not authenticated")
          ELSE IF ~ValidAmount(a)
          THEN Respond(p, "InitializePayment", 400, "bind error")
          ELSE IF ~Visible(r)
          THEN Respond(p, "InitializePayment", 404, "Recipe not found")
          ELSE Begin(p, "InitializePayment", "pay_check", u, r, a)
    /\ UNCHANGED <<recipes, ingredients, steps, images, likes, bookmarks,
                   ratings, purchases>>

\* "Check if user already purchased this recipe"
InitializePaymentCheck(p) ==
    /\ proc[p].op = "InitializePayment" /\ proc[p].pc = "pay_check"
    /\ IF ExistingPurchase(proc[p].user, proc[p].recipe) # {}
       THEN Finish(p, 409, "You have already purchased this recipe")
       ELSE Goto(p, "pay_create")
    /\ UNCHANGED <<recipes, ingredients, steps, images, likes, bookmarks,
                   ratings, purchases>>

\* The user lookup (every account of Users has its row) and
\* h.DB.Create(&purchase), which inserts the row or returns an error.
InitializePaymentCreate(p) ==
    /\ proc[p].op = "InitializePayment" /\ proc[p].pc = "pay_create"
    /\ LET u == proc[p].user
           r == proc[p].recipe
           purchase == [id |-> FreshId(purchases, u, r), user_id |-> u,
                        recipe_id |-> r, amount |-> proc[p].val, tx |-> NoTx,
                        status |-> "pending"]
       IN \/ /\ purchases' = InsertPurchase(purchases, purchase)
             /\ proc' = [proc EXCEPT ![p].pc = "pay_provider", ![p].row = purchase]
          \/ /\ Finish(p, 500, "Failed to create purchase record")
             /\ UNCHANGED purchases
    /\ UNCHANGED <<recipes, ingredients, steps, images, likes, bookmarks, ratings>>

\* The call to api.chapa.co and what the handler does with its outcome: the
\* compensating Delete on every failure, the Save of the reference on success.
InitializePaymentProvider(p) ==
    /\ proc[p].op = "InitializePayment" /\ proc[p].pc = "pay_provider"
    /\ \E o \in InitOutcomes :
          IF o # "success"
          THEN /\ purchases' = DeletePurchase(purchases, proc[p].row)
               /\ proc' = [proc EXCEPT ![p] =
                             [Idle EXCEPT !.op = "InitializePayment",
                                          !.code = InitFailure(o).code,
                                          !.out = InitFailure(o).out,
                                          !.calls = InitFailure(o).calls]]
          ELSE /\ purchases' = SavePurchase(purchases,
                                   [proc[p].row EXCEPT !.tx = TxRef(proc[p].row)])
               /\ proc' = [proc EXCEPT ![p] =
                             [Idle EXCEPT !.op = "InitializePayment", !.code = 200,
                                          !.out = "checkout_url", !.calls = 1]]
    /\ UNCHANGED <<recipes, ingredients, steps, images, likes, bookmarks, ratings>>

\* c.Query("tx_ref"): a reference handed out earlier, one never handed out,
\* or none.
UnknownTx == <<"r1", "u1", 0>>
TxInputs == {x.tx : x \in purchases} \cup {NoTx, UnknownTx}

\* verifyResponse.Data.Status as the provider reports it, or no usable
\* response at all.
VerifyAnswers == {"success", "failed", "unreachable"}

\* if verifyResponse.Data.Status == "success" { "completed" } else { "failed" }
VerifiedStatus(answer) == IF answer = "success" THEN "completed" ELSE "failed"

\* VerifyPayment up to the purchase lookup, the provider asked first.
VerifyPaymentBegin(p) ==
    /\ Ready(p)
    /\ \E tx \in TxInputs, answer \in VerifyAnswers :
          LET found == {x \in purchases : x.tx = tx} IN
          IF tx = NoTx
          THEN Respond(p, "VerifyPayment", 400, "Transaction reference required")
          ELSE IF answer = "unreachable"
          THEN proc' = [proc EXCEPT ![p] =
                          [Idle EXCEPT !.op = "VerifyPayment", !.code = 500,
                                       !.out = "Payment verification service unavailable",
                                       !.calls = 1]]
          ELSE IF found = {}
          THEN proc' = [proc EXCEPT ![p] =
                          [Idle EXCEPT !.op = "VerifyPayment", !.code = 404,
                                       !.out = "Purchase record not found",
                                       !.calls = 1]]
          ELSE proc' = [proc EXCEPT ![p] =
                          [Idle EXCEPT !.op = "VerifyPayment", !.pc = "verify_save",
                                       !.arg = answer, !.calls = 1,
                                       !.row = [First(found) EXCEPT
                                                  !.status = VerifiedStatus(answer)]]]
    /\ UNCHANGED <<recipes, ingredients, steps, images, likes, bookmarks,
                   ratings, purchases>>

\* h.DB.Save(&purchase) and the 200 carrying purchase.Status.
VerifyPaymentSave(p) ==
    /\ proc[p].op = "VerifyPayment" /\ proc[p].pc = "verify_save"
    /\ purchases' = SavePurchase(purchases, proc[p].row)
    /\ proc' = [proc EXCEPT ![p] =
                  [Idle EXCEPT !.op = "VerifyPayment", !.code = 200,
                               !.out = proc[p].row.status, !.calls = 1]]
    /\ UNCHANGED <<recipes, ingredients, steps, images, likes, bookmarks, ratings>>

\* ------------------------------------------------------------------ CreateRecipe

\* recipeInput.  A body as a client writes it when it means well: every
\* scalar filled in, two ingredients, then the parts the requests differ in.
\* Steps arrive with whatever id and step_number the client put in them.
GoodBody == [title |-> "t", description |-> "d", preparation_time |-> 1,
             cooking_time |-> 1, servings |-> 1, difficulty_level |-> "easy",
             category_id |-> "c1", price |-> 0, ingredients |-> 2,
             steps |-> <<[instruction |-> "first", step_number |-> 7, id |-> "x"],
                         [instruction |-> "second", step_number |-> 7, id |-> "x"]>>,
             featured_image_url |-> "", images |-> <<>>]
IngredientCounts == {0, 2}
FeaturedUrls == {"", "a"}
ImageLists ==
    {<<>>,
     <<[image_url |-> "a", is_featured |-> FALSE], [image_url |-> "b", is_featured |-> TRUE]>>,
     <<[image_url |-> "b", is_featured |-> TRUE], [image_url |-> "c", is_featured |-> TRUE]>>}
Bodies ==
    {[GoodBody EXCEPT !.featured_image_url = f, !.images = l] :
        f \in FeaturedUrls, l \in ImageLists}

\* Bodies that differ in the validated fields and in their steps.
StepLists ==
    {<<>>,
     <<[instruction |-> "first", step_number |-> 0, id |-> ""]>>,
     <<[instruction |-> "first", step_number |-> 2, id |-> "x"],
       [instruction |-> "second", step_number |-> 1, id |-> "y"]>>,
     <<[instruction |-> "first", step_number |-> 7, id |-> ""],
       [instruction |-> "second", step_number |-> 7, id |-> ""],
       [instruction |-> "third", step_number |-> 7, id |-> ""]>>}
InputBodies ==
    {[GoodBody EXCEPT !.title = t, !.description = d, !.preparation_time = pt,
                      !.cooking_time = ct, !.servings = sv, !.difficulty_level = dl,
                      !.category_id = cat, !.price = pr, !.ingredients = n,
                      !.steps = st] :
        t \in {"", "t"}, d \in {"", "d"}, pt \in {0, 1}, ct \in {-1, 0, 1},
        sv \in {0, 1}, dl \in {"", "easy", "hard", "extreme"}, cat \in {"", "c1"},
        pr \in {-1, 0, 5}, n \in IngredientCounts, st \in StepLists}

\* The validator behind ShouldBindJSON: "required" fails on the zero value
\* of the field's type (a nil slice for a list, which min=1 rejects as well),
\* "min" compares a number's value and a list's length, "oneof" the string.
Required(v, zero) == v # zero
Difficulties == {"easy", "medium", "hard"}
ValidBody(b) ==
    /\ Required(b.title, "")
    /\ Required(b.description, "")
    /\ Required(b.preparation_time, 0) /\ b.preparation_time >= 1
    /\ Required(b.cooking_time, 0) /\ b.cooking_time >= 0
    /\ Required(b.servings, 0) /\ b.servings >= 1
    /\ Required(b.difficulty_level, "") /\ b.difficulty_level \in Difficulties
    /\ Required(b.category_id, "")
    /\ b.price >= 0
    /\ b.ingredients >= 1
    /\ Len(b.steps) >= 1

\* The uuid the recipe insert will draw: one no recipe has and no open
\* CreateRecipe holds.
CreatingNow == {proc[q].recipe : q \in {x \in Procs : proc[x].op = "CreateRecipe"
                                                     /\ proc[x].pc \notin {"done", "cr_bind"}}}
FreeRecipes == {r \in NewRecipes : ~recipes[r].exists} \ CreatingNow
NewId == CHOOSE r \in FreeRecipes : TRUE

\* time.Now() as gorm stamps CreatedAt: later than every recipe written so
\* far, committed or not.  The clock is followed up to MaxTime.
MaxTime == 3
Max(S) == CHOOSE x \in S : \A y \in S : x >= y
Now == 1 + Max({recipes[r].created_at : r \in RecipeIds}
               \cup {proc[q].tx.recipe.created_at : q \in Procs})

\* Ingredients[i].Name of the bodies, letter by letter.
IngredientName(i) == IF i = 1 THEN <<"S", "A", "L", "T">> ELSE <<"s", "a", "l", "t", "y">>

SameImage(x, y) == x.recipe_id = y.recipe_id /\ x.id = y.id

\* The rows of recipe_images a transaction reads (READ COMMITTED): what is
\* committed, overlaid with the rows it has written itself.
VisibleImages(local) ==
    {x \in images : \A y \in local : ~SameImage(x, y)} \cup local

EnsureNothing(local, new) == local \cup {new}

\* BEFORE INSERT OR UPDATE ON recipe_images FOR EACH ROW: when the new row
\* is featured, every other row of its recipe that the transaction sees is
\* rewritten with is_featured = FALSE; then the row itself is written.
ensure_single_featured_image(local, new) ==
    IF new.is_featured
    THEN LET cleared == {[x EXCEPT !.is_featured = FALSE] :
                            x \in {y \in VisibleImages(local) :
                                      y.recipe_id = new.recipe_id /\ y.id # new.id}}
         IN {y \in local : \A c \in cleared : ~SameImage(y, c)} \cup cleared \cup {new}
    ELSE local \cup {new}

\* A multi-row INSERT INTO recipe_images: the row trigger runs row by row and
\* sees the rows of the same statement already processed.
RECURSIVE InsertImages(_, _, _)
InsertImages(local, list, r) ==
    IF list = <<>> THEN local
    ELSE InsertImages(
            ensure_single_featured_image(local,
                [recipe_id |-> r, id |-> Cardinality(local) + 1,
                 image_url |-> Head(list).image_url,
                 is_featured |-> Head(list).is_featured]),
            Tail(list), r)

\* recipeInput.Images after the loop of lines 383-389: an image carrying the
\* featured URL is marked featured.
MarkFeatured(list, f) ==
    [i \in 1..Len(list) |->
        IF list[i].image_url = f THEN [list[i] EXCEPT !.is_featured = TRUE] ELSE list[i]]

KeepStepNumbers(list) == [i \in 1..Len(list) |-> [list[i] EXCEPT !.id = ""]]

\* recipeInput.Steps after the loop of lines 346-350: the id cleared for the
\* database to draw one, step_number the position in the list.
NumberSteps(list) ==
    [i \in 1..Len(list) |-> [list[i] EXCEPT !.id = "", !.step_number = i]]

RollbackKeeps(table, rows) == table \cup rows

\* tx.Rollback(): the table as it was, the transaction's rows dropped.
Rollback(table, rows) == table

\* tx.Commit(): the transaction's row versions replace the committed ones
\* of the same key and its new rows are added.
Commit(table, rows) ==
    {x \in table : \A y \in rows : ~(x.recipe_id = y.recipe_id /\ x.id = y.id)} \cup rows

\* A failed write: tx.Rollback(), then the 500 of that stage.
Abort(p, out) ==
    /\ ingredients' = Rollback(ingredients, proc[p].tx.ingredients)
    /\ steps' = Rollback(steps, proc[p].tx.steps)
    /\ images' = Rollback(images, proc[p].tx.images)
    /\ Finish(p, 500, out)
    /\ UNCHANGED recipes

\* A write that went through: it stays in the transaction.
Wrote(p, pc, tx) ==
    /\ proc' = [proc EXCEPT ![p].pc = pc, ![p].tx = tx]
    /\ UNCHANGED <<recipes, ingredients, steps, images>>

AfterSteps(b) ==
    IF b.featured_image_url # "" THEN "cr_featured"
    ELSE IF b.images # <<>> THEN "cr_images" ELSE "cr_commit"
AfterStamp(b) == IF b.images # <<>> THEN "cr_images" ELSE "cr_commit"

\* CreateRecipe up to the body: the caller is one of authors or is not
\* authenticated, the body one of bodies.
CreateRecipeBegin(p, authors, bodies) ==
    /\ Ready(p)
    /\ \E u \in authors \cup {NoUser}, b \in bodies :
          IF u = NoUser
          THEN Respond(p, "CreateRecipe", 401, "User not authenticated")
          ELSE proc' = [proc EXCEPT ![p] =
                          [Idle EXCEPT !.op = "CreateRecipe", !.pc = "cr_bind",
                                       !.user = u, !.body = b]]
    /\ UNCHANGED <<recipes, ingredients, steps, images, likes, bookmarks,
                   ratings, purchases>>

\* c.ShouldBindJSON(&recipeInput), then tx := h.DB.Begin().
CreateRecipeBind(p) ==
    /\ proc[p].op = "CreateRecipe" /\ proc[p].pc = "cr_bind"
    /\ IF ~ValidBody(proc[p].body)
       THEN Finish(p, 400, "bind error")
       ELSE /\ FreeRecipes # {}
            /\ proc' = [proc EXCEPT ![p].pc = "cr_recipe", ![p].recipe = NewId]
    /\ UNCHANGED <<recipes, ingredients, steps, images, likes, bookmarks,
                   ratings, purchases>>

\* tx.Create(&recipe)
CreateRecipeRecipe(p) ==
    /\ proc[p].op = "CreateRecipe" /\ proc[p].pc = "cr_recipe"
    /\ Now <= MaxTime
    /\ \/ Wrote(p, "cr_ingredients",
                [proc[p].tx EXCEPT !.recipe =
                    [AbsentRecipe EXCEPT !.exists = TRUE, !.user_id = proc[p].user,
                                         !.is_published = TRUE,
                                         !.category_id = proc[p].body.category_id,
                                         !.price = proc[p].body.price,
                                         !.created_at = Now]])
       \/ Abort(p, "Failed to create recipe")
    /\ UNCHANGED <<likes, bookmarks, ratings, purchases>>

\* tx.Create(&recipeInput.Ingredients)
CreateRecipeIngredients(p) ==
    /\ proc[p].op = "CreateRecipe" /\ proc[p].pc = "cr_ingredients"
    /\ \/ Wrote(p, "cr_steps",
                [proc[p].tx EXCEPT !.ingredients =
                    {[recipe_id |-> proc[p].recipe, id |-> i, name |-> IngredientName(i)] :
                        i \in 1..proc[p].body.ingredients}])
       \/ Abort(p, "Failed to create ingredients")
    /\ UNCHANGED <<likes, bookmarks, ratings, purchases>>

\* tx.Create(&recipeInput.Steps), Steps[i].StepNumber = i + 1 set before.
CreateRecipeSteps(p) ==
    /\ proc[p].op = "CreateRecipe" /\ proc[p].pc = "cr_steps"
    /\ \/ Wrote(p, AfterSteps(proc[p].body),
                [proc[p].tx EXCEPT !.steps =
                    LET list == NumberSteps(proc[p].body.steps)
                    IN {[recipe_id |-> proc[p].recipe, id |-> i,
                         step_number |-> list[i].step_number,
                         instruction |-> list[i].instruction] :
                           i \in 1..Len(list)}])
       \/ Abort(p, "Failed to create steps")
    /\ UNCHANGED <<likes, bookmarks, ratings, purchases>>

\* tx.Create(&featuredImage)
CreateRecipeFeatured(p) ==
    /\ proc[p].op = "CreateRecipe" /\ proc[p].pc = "cr_featured"
    /\ \/ Wrote(p, "cr_stamp",
                [proc[p].tx EXCEPT !.images =
                    InsertImages(proc[p].tx.images,
                                 <<[image_url |-> proc[p].body.featured_image_url,
                                    is_featured |-> TRUE]>>,
                                 proc[p].recipe)])
       \/ Abort(p, "Failed to create featured image")
    /\ UNCHANGED <<likes, bookmarks, ratings, purchases>>

\* recipe.FeaturedImageURL = &recipeInput.FeaturedImageURL; tx.Save(&recipe)
CreateRecipeStamp(p) ==
    /\ proc[p].op = "CreateRecipe" /\ proc[p].pc = "cr_stamp"
    /\ \/ Wrote(p, AfterStamp(proc[p].body),
                [proc[p].tx EXCEPT !.recipe.featured_image_url =
                    proc[p].body.featured_image_url])
       \/ Abort(p, "Failed to update recipe with featured image")
    /\ UNCHANGED <<likes, bookmarks, ratings, purchases>>

\* tx.Create(&recipeInput.Images)
CreateRecipeImages(p) ==
    /\ proc[p].op = "CreateRecipe" /\ proc[p].pc = "cr_images"
    /\ \/ Wrote(p, "cr_commit",
                [proc[p].tx EXCEPT !.images =
                    InsertImages(proc[p].tx.images,
                                 MarkFeatured(proc[p].body.images,
                                              proc[p].body.featured_image_url),
                                 proc[p].recipe)])
       \/ Abort(p, "Failed to create images")
    /\ UNCHANGED <<likes, bookmarks, ratings, purchases>>

\* tx.Commit(), its error not looked at: everything the transaction wrote
\* becomes visible at once, or (the commit failing) nothing does.
CreateRecipeCommit(p) ==
    /\ proc[p].op = "CreateRecipe" /\ proc[p].pc = "cr_commit"
    /\ \/ /\ recipes' = [recipes EXCEPT ![proc[p].recipe] = proc[p].tx.recipe]
          /\ ingredients' = Commit(ingredients, proc[p].tx.ingredients)
          /\ steps' = Commit(steps, proc[p].tx.steps)
          /\ images' = Commit(images, proc[p].tx.images)
       \/ /\ ingredients' = Rollback(ingredients, proc[p].tx.ingredients)
          /\ steps' = Rollback(steps, proc[p].tx.steps)
          /\ images' = Rollback(images, proc[p].tx.images)
          /\ UNCHANGED recipes
    /\ proc' = [proc EXCEPT ![p].pc = "cr_fetch", ![p].tx = NoWrites]
    /\ UNCHANGED <<likes, bookmarks, ratings, purchases>>

\* The Preload(...).First(&createdRecipe, "id = ?", recipe.ID) and the
\* response.
CreateRecipeFetch(p) ==
    /\ proc[p].op = "CreateRecipe" /\ proc[p].pc = "cr_fetch"
    /\ IF Visible(proc[p].recipe)
       THEN Finish(p, 201, "created")
       ELSE Finish(p, 500, "Failed to fetch created recipe")
    /\ UNCHANGED <<recipes, ingredients, steps, images, likes, bookmarks,
                   ratings, purchases>>

\* ------------------------------------------------------------------ recipe_images

\* An INSERT INTO recipe_images for a recipe that exists, as a client of the
\* database other than the handlers issues it (config.Load names the Hasura
\* GraphQL endpoint that serves the same schema; of the handlers only
\* CreateRecipe writes the table, and only for the recipe it is creating).
\* The row trigger runs first, in the statement's transaction, and its
\* UPDATE reads the rows committed by then: a row another transaction has
\* inserted and not yet committed is not among them.
MaxImages == 2
FreeImageIds(r) ==
    (1..MaxImages) \ {x.id : x \in {y \in images \cup UNION {proc[q].tx.images : q \in Procs} :
                               y.recipe_id = r}}
InsertImageTrigger(p) ==
    /\ Ready(p)
    /\ \E r \in SeedRecipes, flag \in BOOLEAN :
          /\ recipes[r].exists
          /\ FreeImageIds(r) # {}
          /\ proc' = [proc EXCEPT ![p] =
                        [Idle EXCEPT !.op = "InsertImage", !.pc = "img_commit",
                                     !.recipe = r,
                                     !.tx.images = ensure_single_featured_image({},
                                        [recipe_id |-> r, id |-> Min(FreeImageIds(r)),
                                         image_url |-> "d", is_featured |-> flag])]]
    /\ UNCHANGED <<recipes, ingredients, steps, images, likes, bookmarks,
                   ratings, purchases>>

\* The row is inserted and the statement's transaction commits.
InsertImageCommit(p) ==
    /\ proc[p].op = "InsertImage" /\ proc[p].pc = "img_commit"
    /\ images' = Commit(images, proc[p].tx.images)
    /\ proc' = [proc EXCEPT ![p] = [Idle EXCEPT !.op = "InsertImage"]]
    /\ UNCHANGED <<recipes, ingredients, steps, likes, bookmarks, ratings, purchases>>

\* ------------------------------------------------------------------ listings

\* A query parameter is <<>> when the request does not carry it and <<n>>
\* when it carries the number n.
PageParams == {<<>>, <<0>>, <<1>>, <<2>>}
LimitParams == {<<>>, <<0>>, <<1>>, <<2>>, <<51>>}
CategoryFilters == {"", "c1"}
IngredientFilters == {<<>>, <<"a", "l", "t">>}
MinRatings == {0, 200}

\* The categories table (seeded by main, never written by a handler).
Categories == {"c1", "c2"}
CategoryParams == {"c1", "cx"}

\* ShouldBindQuery: an absent parameter leaves the field at its zero value.
QueryInt(param) == IF param = <<>> THEN 0 ELSE param[1]

\* strconv.Atoi(c.DefaultQuery(name, default))
DefaultQuery(param, default) == IF param = <<>> THEN default ELSE param[1]

\* SearchFilters: Page binding:"min=1", Limit binding:"min=1,max=50".
ValidFilters(page, limit) == page >= 1 /\ limit >= 1 /\ limit <= 50

\* ILIKE '%pattern%': the pattern occurs in the name, letter case ignored.
Lower(c) == IF c = "S" THEN "s" ELSE IF c = "A" THEN "a" ELSE IF c = "L" THEN "l"
            ELSE IF c = "T" THEN "t" ELSE c
LowerAll(w) == [i \in 1..Len(w) |-> Lower(w[i])]
ILike(name, pattern) ==
    \E i \in 1..(Len(name) + 1) :
        /\ i + Len(pattern) - 1 <= Len(name)
        /\ SubSeq(LowerAll(name), i, i + Len(pattern) - 1) = LowerAll(pattern)

ListedAny(r, f) == recipes[r].exists

\* The WHERE of the listings on recipes: gorm's deleted_at IS NULL,
\* is_published = true and the filters that are set.
Listed(r, f) ==
    /\ recipes[r].exists /\ ~recipes[r].deleted
    /\ recipes[r].is_published
    /\ f.category_id # "" => recipes[r].category_id = f.category_id
    /\ f.min_rating > 0 => recipes[r].average_rating >= f.min_rating

\* Rows recipe r contributes to the result: one, or with the ingredient
\* filter one per row of JOIN ingredients ON ingredients.recipe_id =
\* recipes.id WHERE ingredients.name ILIKE '%...%'.
RowsPer(r, f) ==
    IF f.ingredient = <<>> THEN 1
    ELSE Cardinality({x \in ingredients : x.recipe_id = r /\ ILike(x.name, f.ingredient)})

Copies(r, n) == [i \in 1..n |-> r]

\* ORDER BY created_at DESC over the rows of the recipes of S.
RECURSIVE OrderedRows(_, _)
OrderedRows(S, f) ==
    IF S = {} THEN <<>>
    ELSE LET r == CHOOSE x \in S : \A y \in S : recipes[x].created_at >= recipes[y].created_at
         IN Copies(r, RowsPer(r, f)) \o OrderedRows(S \ {r}, f)

ResultRows(f) == OrderedRows({r \in RecipeIds : Listed(r, f)}, f)

\* OFFSET (page - 1) * limit LIMIT limit
PageOf(rows, page, limit) ==
    SubSeq(rows, (page - 1) * limit + 1, Min({page * limit, Len(rows)}))

\* query.Model(&models.Recipe{}).Count(&total)
ListCount(p) ==
    /\ proc[p].pc = "list_count"
    /\ proc' = [proc EXCEPT ![p].pc = "list_find",
                            ![p].list.total = Len(ResultRows(proc[p].filters))]
    /\ UNCHANGED <<recipes, ingredients, steps, images, likes, bookmarks,
                   ratings, purchases>>

\* query.Offset(offset).Limit(limit).Order("created_at DESC").Find(&recipes)
\* and the response.
ListFind(p) ==
    /\ proc[p].pc = "list_find"
    /\ LET f == proc[p].filters
           total == proc[p].list.total
       IN proc' = [proc EXCEPT ![p] =
                     [Idle EXCEPT !.op = proc[p].op, !.code = 200, !.out = "recipes",
                                  !.list = [recipes |-> PageOf(ResultRows(f), f.page, f.limit),
                                            total |-> total, page |-> f.page,
                                            limit |-> f.limit,
                                            pages |-> (total + f.limit - 1) \div f.limit]]]
    /\ UNCHANGED <<recipes, ingredients, steps, images, likes, bookmarks,
                   ratings, purchases>>

\* GetRecipes up to the query: the binding, then the defaults for a zero
\* page or limit.
GetRecipesBegin(p) ==
    /\ Ready(p)
    /\ \E pp \in PageParams, lp \in LimitParams, cat \in CategoryFilters,
          ing \in IngredientFilters, mr \in MinRatings :
          LET page == QueryInt(pp)
              limit == QueryInt(lp)
          IN IF ~ValidFilters(page, limit)
             THEN Respond(p, "GetRecipes", 400, "bind error")
             ELSE proc' = [proc EXCEPT ![p] =
                             [Idle EXCEPT !.op = "GetRecipes", !.pc = "list_count",
                                          !.filters =
                                             [page_param |-> pp, limit_param |-> lp,
                                              page |-> IF page = 0 THEN 1 ELSE page,
                                              limit |-> IF limit = 0 THEN 12 ELSE limit,
                                              category_id |-> cat, ingredient |-> ing,
                                              min_rating |-> mr]]]
    /\ UNCHANGED <<recipes, ingredients, steps, images, likes, bookmarks,
                   ratings, purchases>>

GetRecipesCount(p) == proc[p].op = "GetRecipes" /\ ListCount(p)
GetRecipesFind(p) == proc[p].op = "GetRecipes" /\ ListFind(p)

\* GetCategoryRecipes up to the queries: page and limit parsed and clamped,
\* then the category looked up.
GetCategoryRecipesBegin(p) ==
    /\ Ready(p)
    /\ \E pp \in PageParams, lp \in LimitParams, cat \in CategoryParams :
          LET page == DefaultQuery(pp, 1)
              limit == DefaultQuery(lp, 12)
          IN IF cat \notin Categories
             THEN Respond(p, "GetCategoryRecipes", 404, "Category not found")
             ELSE proc' = [proc EXCEPT ![p] =
                             [Idle EXCEPT !.op = "GetCategoryRecipes", !.pc = "list_count",
                                          !.filters =
                                             [page_param |-> pp, limit_param |-> lp,
                                              page |-> IF page < 1 THEN 1 ELSE page,
                                              limit |-> IF limit < 1 \/ limit > 50
                                                        THEN 12 ELSE limit,
                                              category_id |-> cat, ingredient |-> <<>>,
                                              min_rating |-> 0]]]
    /\ UNCHANGED <<recipes, ingredients, steps, images, likes, bookmarks,
                   ratings, purchases>>

GetCategoryRecipesCount(p) == proc[p].op = "GetCategoryRecipes" /\ ListCount(p)
GetCategoryRecipesFind(p) == proc[p].op = "GetCategoryRecipes" /\ ListFind(p)

\* ------------------------------------------------------------------ UpdateRecipe / DeleteRecipe

\* The request body of UpdateRecipe binds to a whole models.Recipe; a field
\* left out of the JSON is the Go zero value.
ZeroBody == [like_count |-> 0, average_rating |-> 0, total_ratings |-> 0, price |-> 0,
             user_id |-> ""]
LikeBodies == {ZeroBody, [ZeroBody EXCEPT !.like_count = 1]}
RatingBodies == {ZeroBody, [ZeroBody EXCEPT !.average_rating = 450, !.total_ratings = 1]}
OwnerBodies == {ZeroBody, [ZeroBody EXCEPT !.price = 9], [ZeroBody EXCEPT !.user_id = "u2"]}

\* db.Model(&existingRecipe).Updates(updateData): gorm writes the non-zero
\* fields of the struct, WHERE id = ? AND deleted_at IS NULL.
Updates(row, body) ==
    [row EXCEPT
       !.like_count = IF body.like_count # 0 THEN body.like_count ELSE @,
       !.average_rating = IF body.average_rating # 0 THEN body.average_rating ELSE @,
       !.total_ratings = IF body.total_ratings # 0 THEN body.total_ratings ELSE @,
       !.price = IF body.price # 0 THEN body.price ELSE @,
       !.user_id = IF body.user_id # "" THEN body.user_id ELSE @]

OwnedByAnyone(r, u) == Visible(r)

\* First(&existingRecipe, "id = ? AND user_id = ?", recipeID, userID)
OwnedBy(r, u) == Visible(r) /\ recipes[r].user_id = u

UpdateRecipeBegin(p) ==
    /\ Ready(p)
    /\ \E u \in Clients \cup {NoUser}, r \in Targets :
          IF u = NoUser
          THEN Reject(p, "UpdateRecipe", 401, "User not authenticated", u, r)
          ELSE IF ~OwnedBy(r, u)
          THEN Reject(p, "UpdateRecipe", 404, "Recipe not found or access denied", u, r)
          ELSE Begin(p, "UpdateRecipe", "update_write", u, r, 0)
    /\ UNCHANGED <<recipes, ingredients, steps, images, likes, bookmarks,
                   ratings, purchases>>

UpdateRecipeWrite(p, bodies) ==
    /\ proc[p].op = "UpdateRecipe" /\ proc[p].pc = "update_write"
    /\ \/ /\ Finish(p, 400, "bind error")
          /\ UNCHANGED recipes
       \/ \E body \in bodies :
            /\ recipes' = IF Visible(proc[p].recipe)
                          THEN [recipes EXCEPT ![proc[p].recipe] = Updates(@, body)]
                          ELSE recipes
            /\ Finish(p, 200, "updated")
    /\ UNCHANGED <<ingredients, steps, images, likes, bookmarks, ratings, purchases>>

DeleteRecipeBegin(p) ==
    /\ Ready(p)
    /\ \E u \in Clients \cup {NoUser}, r \in Targets :
          IF u = NoUser
          THEN Reject(p, "DeleteRecipe", 401, "User not authenticated", u, r)
          ELSE IF ~OwnedBy(r, u)
          THEN Reject(p, "DeleteRecipe", 404, "Recipe not found or access denied", u, r)
          ELSE Begin(p, "DeleteRecipe", "delete_write", u, r, 0)
    /\ UNCHANGED <<recipes, ingredients, steps, images, likes, bookmarks,
                   ratings, purchases>>

\* h.DB.Delete(&recipe): models.Recipe has a gorm.DeletedAt, so this is
\* UPDATE recipes SET deleted_at = now() WHERE id = ? AND deleted_at IS NULL.
DeleteRecipeWrite(p) ==
    /\ proc[p].op = "DeleteRecipe" /\ proc[p].pc = "delete_write"
    /\ recipes' = [recipes EXCEPT ![proc[p].recipe].deleted = TRUE]
    /\ Finish(p, 200, "Recipe deleted successfully")
    /\ UNCHANGED <<ingredients, steps, images, likes, bookmarks, ratings, purchases>>

\* ------------------------------------------------------------------ specifications

Init ==
    /\ recipes = [r \in RecipeIds |->
                    IF r \in SeedRecipes THEN SeedRecipe("u1", 5) ELSE AbsentRecipe]
    /\ ingredients = {}
    /\ steps = {}
    /\ images = {}
    /\ likes = {}
    /\ bookmarks = {}
    /\ ratings = {SeedRating}
    /\ purchases = {}
    /\ proc = [p \in Procs |-> Idle]

NextLike ==
    \E p \in Procs :
        \/ ToggleLikeBegin(p)
        \/ ToggleLikeLookup(p)
        \/ ToggleLikeCreate(p)
        \/ ToggleLikeDelete(p)
        \/ UpdateRecipeBegin(p)
        \/ UpdateRecipeWrite(p, LikeBodies)
        \/ DeleteRecipeBegin(p)
        \/ DeleteRecipeWrite(p)

SpecLike == Init /\ [][NextLike]_vars

\* Ratings and whatever else writes the rating aggregates.  DeleteRecipe is
\* left out: it writes neither, and only stops new requests on the recipe.
NextRating ==
    \/ \E p \in Procs :
        \/ AddRatingBegin(p)
        \/ AddRatingLookup(p)
        \/ AddRatingCreate(p)
        \/ AddRatingSave(p)
        \/ UpdateRecipeBegin(p)
        \/ UpdateRecipeWrite(p, RatingBodies)
    \/ RatingRowDelete

SpecRating == Init /\ [][NextRating]_vars

\* Two clients rating at the same time, each on its own connection.
RaceCaller(p) == IF p = "p1" THEN "u1" ELSE "u2"
AddRatingBeginBy(p) == AddRatingBegin(p) /\ proc'[p].user \in {NoUser, RaceCaller(p)}
NextRace ==
    \E p \in Procs :
        \/ AddRatingBeginBy(p)
        \/ AddRatingLookup(p)
        \/ AddRatingStatement(p)
        \/ AddRatingCommit(p)

SpecRace == Init /\ [][NextRace]_vars

\* One client sending its like, bookmark and rating requests twice over.
SameCaller(p) == proc'[p].user \in {NoUser, "u1"}
ToggleLikeBeginBy(p) == ToggleLikeBegin(p) /\ SameCaller(p)
ToggleBookmarkBeginBy(p) == ToggleBookmarkBegin(p) /\ SameCaller(p)
AddRatingBeginSame(p) == AddRatingBegin(p) /\ SameCaller(p)
NextPair ==
    \E p \in Procs :
        \/ ToggleLikeBeginBy(p)
        \/ ToggleLikeLookup(p)
        \/ ToggleLikeCreate(p)
        \/ ToggleLikeDelete(p)
        \/ ToggleBookmarkBeginBy(p)
        \/ ToggleBookmarkLookup(p)
        \/ ToggleBookmarkCreate(p)
        \/ ToggleBookmarkDelete(p)
        \/ AddRatingBeginSame(p)
        \/ AddRatingLookup(p)
        \/ AddRatingCreate(p)
        \/ AddRatingSave(p)

SpecPair == Init /\ [][NextPair]_vars

\* CreateRecipe, the only handler that writes ingredients, steps and
\* recipe_images.
CreateRecipeWrites(p) ==
    \/ CreateRecipeBind(p)
    \/ CreateRecipeRecipe(p)
    \/ CreateRecipeIngredients(p)
    \/ CreateRecipeSteps(p)
    \/ CreateRecipeFeatured(p)
    \/ CreateRecipeStamp(p)
    \/ CreateRecipeImages(p)
    \/ CreateRecipeCommit(p)
    \/ CreateRecipeFetch(p)

\* The steps a request without images goes through.
CreateRecipePlain(p) ==
    \/ CreateRecipeBind(p)
    \/ CreateRecipeRecipe(p)
    \/ CreateRecipeIngredients(p)
    \/ CreateRecipeSteps(p)
    \/ CreateRecipeCommit(p)
    \/ CreateRecipeFetch(p)

NextCreate ==
    \E p \in Procs :
        \/ CreateRecipeBegin(p, Clients, Bodies)
        \/ CreateRecipeWrites(p)

SpecCreate == Init /\ [][NextCreate]_vars

\* CreateRecipe as one client after the other calls it, over the bodies that
\* differ in what is validated and in their steps.
NextInput ==
    \/ CreateRecipeBegin("p1", {"u1"}, InputBodies)
    \/ CreateRecipePlain("p1")

SpecInput == Init /\ [][NextInput]_vars

\* Every writer of recipe_images: CreateRecipe (one author is enough here)
\* and the table's own INSERT.
NextImage ==
    \E p \in Procs :
        \/ CreateRecipeBegin(p, {"u1"}, Bodies)
        \/ CreateRecipeWrites(p)
        \/ InsertImageTrigger(p)
        \/ InsertImageCommit(p)

SpecImage == Init /\ [][NextImage]_vars

\* The listings, read while recipes are created and deleted.  Besides "r1"
\* (with the two ingredients of its body) there is a draft of "u2": a row
\* with is_published at the column's default, as a client of the schema
\* other than CreateRecipe leaves it.
ListBodies == {GoodBody}
InitList ==
    /\ recipes = [r \in RecipeIds |->
                    IF r = "r1" THEN SeedRecipe("u1", 5)
                    ELSE IF r = "r2"
                    THEN [SeedRecipe("u2", 0) EXCEPT !.is_published = FALSE,
                                                     !.average_rating = 0,
                                                     !.total_ratings = 0,
                                                     !.created_at = 2]
                    ELSE AbsentRecipe]
    /\ ingredients = {[recipe_id |-> r, id |-> i, name |-> IngredientName(i)] :
                         r \in {"r1", "r2"}, i \in 1..2}
    /\ steps = {}
    /\ images = {}
    /\ likes = {}
    /\ bookmarks = {}
    /\ ratings = {SeedRating}
    /\ purchases = {}
    /\ proc = [p \in Procs |-> Idle]

NextList ==
    \/ GetRecipesBegin("p1")
    \/ GetRecipesCount("p1")
    \/ GetRecipesFind("p1")
    \/ GetCategoryRecipesBegin("p1")
    \/ GetCategoryRecipesCount("p1")
    \/ GetCategoryRecipesFind("p1")
    \/ CreateRecipeBegin("p2", {"u1"}, ListBodies)
    \/ CreateRecipePlain("p2")
    \/ DeleteRecipeBegin("p2")
    \/ DeleteRecipeWrite("p2")

SpecList == InitList /\ [][NextList]_vars

\* The two handlers that look up a recipe by id and owner.
NextOwner ==
    \E p \in Procs :
        \/ UpdateRecipeBegin(p)
        \/ UpdateRecipeWrite(p, OwnerBodies)
        \/ DeleteRecipeBegin(p)
        \/ DeleteRecipeWrite(p)

SpecOwner == Init /\ [][NextOwner]_vars

\* The two payment handlers, the only writers of purchases.
NextPay ==
    \E p \in Procs :
        \/ InitializePaymentBegin(p)
        \/ InitializePaymentCheck(p)
        \/ InitializePaymentCreate(p)
        \/ InitializePaymentProvider(p)
        \/ VerifyPaymentBegin(p)
        \/ VerifyPaymentSave(p)

SpecPay == Init /\ [][NextPay]_vars

\* ------------------------------------------------------------------ claims

LikeRows(r) == {x \in likes : x.recipe_id = r}

\* C1: in every reachable state every recipe's like_count equals the number
\* of Like rows of that recipe.
LikeCountMatchesLikes ==
    \A r \in Targets :
        recipes[r].exists => recipes[r].like_count = Cardinality(LikeRows(r))

Abs(x) == IF x < 0 THEN -x ELSE x

\* avg100 is the mean of the rows' ratings to the two decimals of the column.
IsMeanOf(avg100, rows) ==
    2 * Abs(100 * SumRatings(rows) - avg100 * Cardinality(rows))
        <= Cardinality(rows)

AggregatesMatch(rec, rows) ==
    IF rows = {}
    THEN rec.average_rating = 0 /\ rec.total_ratings = 0
    ELSE rec.total_ratings = Cardinality(rows) /\ IsMeanOf(rec.average_rating, rows)

\* C2: after every completed insert, update or delete of a Rating row, each
\* recipe with ratings has average_rating equal to their mean and
\* total_ratings equal to their number, and each recipe without ratings has
\* both at 0.
RatingAggregatesFollowRows ==
    [][ratings' # ratings =>
         \A r \in RecipeIds :
             recipes'[r].exists => AggregatesMatch(recipes'[r], RatingsOf(ratings', r))]_vars

\* C10: an AddRating by a user who already has a Rating row for the recipe
\* overwrites that row: afterwards the user has exactly one row for the
\* recipe, it is the row found, it carries the value just submitted, no row
\* was added, and the recipe's total_ratings and average_rating are the count
\* and the mean of the rows as they now are.
RatingResubmitUpdatesRow ==
    [][\A p \in Procs :
         (proc[p].op = "AddRating" /\ proc[p].pc = "rating_save"
            /\ HasRow(ratings, proc[p].row))
         /\ proc'[p] # proc[p]
         => LET u == proc[p].user
                r == proc[p].recipe
                mine == RowsOf(ratings', u, r)
            IN /\ proc'[p].pc = "done" /\ proc'[p].code = 200
               /\ Cardinality(mine) = 1
               /\ \A x \in mine : x.rating = proc[p].val /\ x.id = proc[p].row.id
               /\ Cardinality(ratings') = Cardinality(ratings)
               /\ recipes'[r].total_ratings = Cardinality(RatingsOf(ratings', r))
               /\ IsMeanOf(recipes'[r].average_rating, RatingsOf(ratings', r))]_vars

\* A second submission has been answered: the row it overwrote carries the
\* new value 2, and the three ratings 1, 2, 2 average to 1.67.
RatingResubmitted ==
    \E p \in Procs :
        /\ proc[p].op = "AddRating" /\ proc[p].pc = "done" /\ proc[p].code = 200
        /\ proc[p].row \in ratings
        /\ proc[p].row.rating = 2
        /\ recipes[proc[p].row.recipe_id].total_ratings = 3
        /\ recipes[proc[p].row.recipe_id].average_rating = 167

Terminal == {"completed", "failed"}
Before(row) == {x \in purchases : SamePurchase(x, row)}

\* C5: a Purchase is created pending, its status only ever goes from pending
\* to completed or to failed, and a completed or failed Purchase keeps its
\* status whatever is called afterwards.
PurchaseStatusWriteOnce ==
    [][\A y \in purchases' :
         IF Before(y) = {} THEN y.status = "pending"
         ELSE \A x \in Before(y) :
                 \/ y.status = x.status
                 \/ x.status = "pending" /\ y.status \in Terminal]_vars

\* C6: when InitializePayment runs its duplicate check for user U and recipe
\* R while U holds a pending or completed Purchase for R, the request ends
\* there with 409 Conflict, and neither that step nor any earlier step of the
\* request has changed the purchases table.
DuplicatePurchaseRejected ==
    [][\A p \in Procs :
         proc[p].op = "InitializePayment" /\ proc'[p] # proc[p]
         => /\ (proc[p].pc = "pay_check"
                /\ \E x \in RowsOf(purchases, proc[p].user, proc[p].recipe) :
                       x.status # "failed")
               => /\ proc'[p].pc = "done" /\ proc'[p].code = 409
                  /\ proc'[p].row = NoRow
            /\ proc[p].pc = "pay_check" => purchases' = purchases
            /\ proc'[p].code = 409 => proc[p].pc = "pay_check"]_vars

\* An InitializePayment has been answered 409 and the one Purchase there is
\* has been accepted by the provider and is still pending.
DuplicateWasRejected ==
    \E p \in Procs :
        /\ proc[p].op = "InitializePayment" /\ proc[p].pc = "done"
        /\ proc[p].code = 409
        /\ Cardinality(purchases) = 1
        /\ \A x \in purchases : x.status = "pending" /\ x.tx # NoTx

\* C7: when InitializePayment runs its duplicate check for a user whose
\* Purchases for the recipe have all failed, the request is not answered 409.
FailedPurchaseAllowsRetry ==
    [][\A p \in Procs :
         (proc[p].op = "InitializePayment" /\ proc[p].pc = "pay_check"
            /\ proc'[p] # proc[p]
            /\ RowsOf(purchases, proc[p].user, proc[p].recipe) # {}
            /\ \A x \in RowsOf(purchases, proc[p].user, proc[p].recipe) :
                   x.status = "failed")
         => proc'[p].code # 409]_vars

AtMostOneFeatured ==
    \A r \in RecipeIds :
        Cardinality({x \in images : x.recipe_id = r /\ x.is_featured}) <= 1

RowsFor(table, r) == {x \in table : x.recipe_id = r}
ImagesOf(b) == Len(b.images) + (IF b.featured_image_url # "" THEN 1 ELSE 0)

\* C4: CreateRecipe is all-or-nothing.  No step of it before the commit
\* changes what readers see; the commit either publishes the recipe with
\* every ingredient, step and image of the request at once or publishes
\* nothing; and a request answered with an error leaves no Recipe,
\* Ingredient, Step or RecipeImage row of its recipe.
CreateRecipeAllOrNothing ==
    [][\A p \in Procs :
         (proc[p].op = "CreateRecipe" /\ proc[p].pc # "done" /\ proc'[p] # proc[p])
         => LET r == IF proc[p].pc = "cr_bind" THEN proc'[p].recipe ELSE proc[p].recipe
                b == proc[p].body
                same == /\ recipes' = recipes /\ ingredients' = ingredients
                        /\ steps' = steps /\ images' = images
                whole == /\ recipes'[r].exists /\ ~recipes[r].exists
                         /\ Cardinality(RowsFor(ingredients', r)) = b.ingredients
                         /\ Cardinality(RowsFor(steps', r)) = Len(b.steps)
                         /\ Cardinality(RowsFor(images', r)) = ImagesOf(b)
                         /\ \A q \in RecipeIds \ {r} :
                               /\ recipes'[q] = recipes[q]
                               /\ RowsFor(ingredients', q) = RowsFor(ingredients, q)
                               /\ RowsFor(steps', q) = RowsFor(steps, q)
                               /\ RowsFor(images', q) = RowsFor(images, q)
            IN /\ IF proc[p].pc = "cr_commit" THEN same \/ whole ELSE same
               /\ (proc'[p].pc = "done" /\ proc'[p].code = 500)
                  => /\ ~recipes'[r].exists
                     /\ RowsFor(ingredients', r) = {} /\ RowsFor(steps', r) = {}
                     /\ RowsFor(images', r) = {}
               /\ (proc'[p].pc = "done" /\ proc'[p].code = 201)
                  => recipes'[r].exists]_vars

\* A CreateRecipe whose step insert failed after its ingredients were written
\* has been answered, and no row of any recipe but "r1" exists.
CreateRecipeRolledBack ==
    \E p \in Procs :
        /\ proc[p].op = "CreateRecipe" /\ proc[p].pc = "done"
        /\ proc[p].code = 500 /\ proc[p].out = "Failed to create steps"
        /\ \A r \in NewRecipes : ~recipes[r].exists
        /\ ingredients = {} /\ steps = {} /\ images = {}

\* C11: ToggleLike is a strict toggle.  Its lookup writes nothing and sends
\* the call to the insert when the user has no Like for the recipe and to the
\* delete of the row found when the user has one; the insert answers
\* liked = true, adds exactly one Like of (user, recipe) and raises like_count
\* by one; the delete answers liked = false, removes exactly the row found
\* and lowers like_count by one; no call does both and no other row changes.
\* Two calls in succession therefore answer true then false and leave the
\* Like rows and like_count as they were.
ToggleLikeStrict ==
    [][\A p \in Procs :
         (proc[p].op = "ToggleLike" /\ proc[p].pc # "done" /\ proc'[p] # proc[p])
         => LET u == proc[p].user
                r == proc[p].recipe
                mine == RowsOf(likes, u, r)
                mine2 == RowsOf(likes', u, r)
            IN /\ likes' \ mine2 = likes \ mine
               /\ \A q \in RecipeIds \ {r} : recipes'[q] = recipes[q]
               /\ proc[p].pc = "like_lookup"
                  => /\ likes' = likes /\ recipes' = recipes
                     /\ IF mine = {} THEN proc'[p].pc = "like_create"
                        ELSE proc'[p].pc = "like_delete" /\ proc'[p].row \in mine
               /\ (proc[p].pc = "like_create" /\ mine = {})
                  => /\ proc'[p].code = 200 /\ proc'[p].out = "liked"
                     /\ Cardinality(mine2) = 1
                     /\ recipes'[r].like_count = recipes[r].like_count + 1
               /\ proc[p].pc = "like_delete"
                  => /\ proc'[p].code = 200 /\ proc'[p].out = "unliked"
                     /\ likes' = likes \ {proc[p].row}
                     /\ recipes'[r].like_count =
                           recipes[r].like_count - (IF proc[p].row \in likes THEN 1 ELSE 0)]_vars

\* One request slot alone has acted, its last ToggleLike answered
\* liked = false, and "r1" is back to no Like row and like_count 0.
ToggledTwice ==
    \E p \in Procs :
        /\ proc[p].op = "ToggleLike" /\ proc[p].pc = "done"
        /\ proc[p].code = 200 /\ proc[p].out = "unliked"
        /\ \A q \in Procs \ {p} : proc[q] = Idle
        /\ likes = {} /\ recipes["r1"].like_count = 0

\* C12: average_rating, total_ratings and like_count of a recipe change only
\* in a step that inserts, updates or deletes a Like or a Rating row of that
\* recipe.
DerivedFieldsOnlyRecomputed ==
    [][\A r \in RecipeIds :
         (\/ recipes'[r].like_count # recipes[r].like_count
          \/ recipes'[r].average_rating # recipes[r].average_rating
          \/ recipes'[r].total_ratings # recipes[r].total_ratings)
         => \/ {x \in likes' : x.recipe_id = r} # {x \in likes : x.recipe_id = r}
            \/ {x \in ratings' : x.recipe_id = r} # {x \in ratings : x.recipe_id = r}]_vars

\* The conditions as the specification lists them.
ListedConditions(b) ==
    /\ b.title # "" /\ b.description # ""
    /\ b.preparation_time >= 1 /\ b.cooking_time >= 0 /\ b.servings >= 1
    /\ b.difficulty_level \in {"easy", "medium", "hard"}
    /\ b.price >= 0
    /\ b.ingredients >= 1 /\ Len(b.steps) >= 1

\* C13: the validation of CreateRecipe writes nothing, rejects (400) every
\* body that breaks one of the listed conditions and lets every body that
\* meets them all through to the first write.
CreateRecipeValidation ==
    [][\A p \in Procs :
         (proc[p].op = "CreateRecipe" /\ proc[p].pc = "cr_bind" /\ proc'[p] # proc[p])
         => /\ recipes' = recipes /\ ingredients' = ingredients
            /\ steps' = steps /\ images' = images
            /\ IF ListedConditions(proc[p].body)
               THEN proc'[p].pc = "cr_recipe"
               ELSE proc'[p].pc = "done" /\ proc'[p].code = 400]_vars

\* C14: the commit of a CreateRecipe whose body lists N steps publishes
\* exactly N Step rows for the recipe, the step at position i of the list
\* (known by its instruction) with step_number i, whatever id and
\* step_number the body gave it.
StepNumbersByPosition ==
    [][\A p \in Procs :
         (proc[p].op = "CreateRecipe" /\ proc[p].pc = "cr_commit"
            /\ recipes'[proc[p].recipe].exists)
         => LET list == proc[p].body.steps
                rows == RowsFor(steps', proc[p].recipe)
            IN /\ Cardinality(rows) = Len(list)
               /\ {x.step_number : x \in rows} = 1..Len(list)
               /\ \A i \in 1..Len(list) :
                     \E x \in rows : /\ x.step_number = i
                                     /\ x.instruction = list[i].instruction]_vars

\* A recipe created from steps the client numbered 2, 1 is there with its
\* two steps numbered in list order, and one created from three steps all
\* numbered 7 with steps 1, 2, 3.
StepsRenumbered ==
    \E r, q \in NewRecipes :
        /\ recipes[r].exists /\ recipes[q].exists
        /\ Cardinality(RowsFor(steps, r)) = 2
        /\ \E x \in RowsFor(steps, r) : x.step_number = 2 /\ x.instruction = "second"
        /\ {x.step_number : x \in RowsFor(steps, q)} = {1, 2, 3}

Listing == {"GetRecipes", "GetCategoryRecipes"}
Range(seq) == {seq[i] : i \in 1..Len(seq)}

\* C15: a listing (GetRecipes with any filters, GetCategoryRecipes) returns
\* no recipe that is unpublished or soft-deleted when the rows are read.
NoHiddenRecipeListed ==
    [][\A p \in Procs :
         (proc[p].op \in Listing /\ proc[p].pc = "list_find" /\ proc'[p] # proc[p])
         => /\ proc'[p].code = 200
            /\ \A r \in Range(proc'[p].list.recipes) :
                  recipes[r].exists /\ recipes[r].is_published /\ ~recipes[r].deleted]_vars

\* A listing has returned the recipe created last while "r1" is soft-deleted
\* and the draft "r2" is unpublished.
ListedWithoutHidden ==
    \E p \in Procs :
        /\ proc[p].op \in Listing /\ proc[p].pc = "done" /\ proc[p].code = 200
        /\ proc[p].list.recipes = <<"r3">>
        /\ recipes["r1"].deleted /\ ~recipes["r2"].is_published

ClampedPage(param) == IF param = <<>> \/ param[1] < 1 THEN 1 ELSE param[1]
ClampedLimit(param) ==
    IF param = <<>> \/ param[1] < 1 \/ param[1] > 50 THEN 12 ELSE param[1]

\* C16: a listing never fails on its pagination parameters: an absent or
\* below-1 page counts as 1, an absent, below-1 or above-50 limit as 12.
PaginationClamps ==
    [][\A p \in Procs :
         (proc[p].pc = "done" /\ proc'[p].op \in Listing /\ proc'[p] # proc[p])
         => /\ proc'[p].code # 400
            /\ proc'[p].pc = "list_count"
               => /\ proc'[p].filters.page = ClampedPage(proc'[p].filters.page_param)
                  /\ proc'[p].filters.limit = ClampedLimit(proc'[p].filters.limit_param)]_vars

\* The distinct published recipes matching the filters, newest first.
Matching(f) ==
    {r \in RecipeIds :
        /\ recipes[r].exists /\ ~recipes[r].deleted /\ recipes[r].is_published
        /\ f.category_id # "" => recipes[r].category_id = f.category_id
        /\ f.min_rating > 0 => recipes[r].average_rating >= f.min_rating
        /\ f.ingredient # <<>>
           => \E x \in ingredients : x.recipe_id = r /\ ILike(x.name, f.ingredient)}
RECURSIVE Ranked(_)
Ranked(S) ==
    IF S = {} THEN <<>>
    ELSE LET r == CHOOSE x \in S : \A y \in S : recipes[x].created_at >= recipes[y].created_at
         IN <<r>> \o Ranked(S \ {r})

\* C17: a listing reports as total the number of distinct published recipes
\* matching its filters, pages = ceil(total / limit), and returns exactly
\* the recipes at ranks (page-1)*limit+1 .. min(page*limit, total), newest
\* first, none twice.
ListingConsistent ==
    [][\A p \in Procs :
         (proc[p].op \in Listing /\ proc[p].pc = "list_find" /\ proc'[p] # proc[p])
         => LET f == proc[p].filters
                ranked == Ranked(Matching(f))
                total == Len(ranked)
                got == proc'[p].list
            IN /\ got.total = total
               /\ got.pages = (total + f.limit - 1) \div f.limit
               /\ got.recipes = SubSeq(ranked, (f.page - 1) * f.limit + 1,
                                       Min({f.page * f.limit, total}))
               /\ Cardinality(Range(got.recipes)) = Len(got.recipes)]_vars

Tables == <<recipes, ingredients, steps, images, likes, bookmarks, ratings, purchases>>

\* C18: UpdateRecipe and DeleteRecipe answer 401 to a caller that is not
\* authenticated and 404 to an authenticated caller that names a recipe
\* that does not exist or belongs to someone else, and change no row.
RejectedWithoutChange ==
    [][\A p \in Procs :
         (proc[p].pc = "done" /\ proc'[p].op \in {"UpdateRecipe", "DeleteRecipe"}
            /\ proc'[p] # proc[p])
         => LET u == proc'[p].user
                r == proc'[p].recipe
            IN /\ u = NoUser
                  => proc'[p].pc = "done" /\ proc'[p].code = 401 /\ Tables' = Tables
               /\ (u # NoUser /\ ~(recipes[r].exists /\ recipes[r].user_id = u))
                  => proc'[p].pc = "done" /\ proc'[p].code = 404 /\ Tables' = Tables]_vars

\* A request of "u2" on the live recipe "r1" of "u1" has been answered 404.
NonOwnerRejected ==
    \E p \in Procs :
        /\ proc[p].op \in {"UpdateRecipe", "DeleteRecipe"} /\ proc[p].pc = "done"
        /\ proc[p].code = 404 /\ proc[p].user = "u2" /\ proc[p].recipe = "r1"
        /\ recipes["r1"].exists /\ ~recipes["r1"].deleted /\ recipes["r1"].user_id = "u1"

\* C19: once no AddRating is in flight, however the calls of distinct users
\* on one recipe interleaved, the recipe's average_rating and total_ratings
\* are the mean and the count of all its committed Rating rows.
NoLostRatingUpdate ==
    (\A p \in Procs : proc[p].pc = "done")
    => \A r \in RecipeIds :
          recipes[r].exists => AggregatesMatch(recipes[r], RatingsOf(ratings, r))

\* C20: in every reachable state there is at most one Like row, one
\* Bookmark row and one Rating row per (user, recipe) pair, also after the
\* same user's concurrent ToggleLike, ToggleBookmark or AddRating calls.
OneRowPerPair ==
    \A u \in Users, r \in RecipeIds :
        /\ Cardinality(RowsOf(likes, u, r)) <= 1
        /\ Cardinality(RowsOf(bookmarks, u, r)) <= 1
        /\ Cardinality(RowsOf(ratings, u, r)) <= 1

\* "u1" holds a like, a bookmark and a rating on "r1", and a request that
\* found no row at its lookup has had its insert refused.
SecondInsertRefused ==
    /\ RowsOf(likes, "u1", "r1") # {}
    /\ RowsOf(bookmarks, "u1", "r1") # {}
    /\ RowsOf(ratings, "u1", "r1") # {}
    /\ \E p \in Procs :
          /\ proc[p].pc = "done" /\ proc[p].code = 500
          /\ proc[p].out \in {"Failed to like recipe", "Failed to bookmark recipe",
                              "Failed to add rating"}

\* C21: nothing but the earlier existence check stands before the Purchase
\* insert: a request that has passed the check adds its pending row whatever
\* rows the pair has by then, so two concurrent InitializePayment calls of
\* one user for one recipe can both insert (the state of the witness).
PurchaseInsertUnguarded ==
    [][\A p \in Procs :
         (proc[p].op = "InitializePayment" /\ proc[p].pc = "pay_create"
            /\ proc'[p].pc = "pay_provider")
         => /\ proc'[p].row \in purchases'
            /\ proc'[p].row \notin purchases
            /\ proc'[p].row.status = "pending"
            /\ purchases' = purchases \cup {proc'[p].row}]_vars

\* Two Purchase rows of one user for one recipe, neither of them failed.
TwoLivePurchases ==
    \E x, y \in purchases :
        /\ x # y /\ x.user_id = y.user_id /\ x.recipe_id = y.recipe_id
        /\ x.status # "failed" /\ y.status # "failed"

\* C22: a CreateRecipe that succeeds with a featured-image URL leaves the
\* recipe published and stamped with that URL, exactly one of its images
\* featured and that image carrying the URL, and all the submitted
\* ingredients, steps and images stored for the response to return.
FeaturedImageIsStamped ==
    [][\A p \in Procs :
         (proc[p].op = "CreateRecipe" /\ proc[p].pc = "cr_fetch"
            /\ proc'[p].code = 201 /\ proc[p].body.featured_image_url # "")
         => LET r == proc[p].recipe
                b == proc[p].body
                mine == {x \in images : x.recipe_id = r}
                featured == {x \in mine : x.is_featured}
            IN /\ recipes[r].is_published
               /\ recipes[r].featured_image_url = b.featured_image_url
               /\ Cardinality(featured) = 1
               /\ \A x \in featured : x.image_url = b.featured_image_url
               /\ Cardinality(mine) = Len(b.images) + 1
               /\ Cardinality({x \in ingredients : x.recipe_id = r}) = b.ingredients
               /\ Cardinality({x \in steps : x.recipe_id = r}) = Len(b.steps)]_vars

\* C23: once DeleteRecipe has succeeded for a recipe, no Ingredient, Step or
\* RecipeImage row of it and no Like, Bookmark, Rating or Purchase row
\* referencing it remains.
DeleteRecipeCascades ==
    [][\A p \in Procs :
         (proc[p].op = "DeleteRecipe" /\ proc[p].pc = "delete_write"
            /\ proc'[p].code = 200)
         => \A x \in ingredients' \cup steps' \cup images' \cup likes' \cup bookmarks'
                       \cup ratings' \cup purchases' :
               x.recipe_id # proc[p].recipe]_vars

\* C24: whatever its body, UpdateRecipe leaves the recipe's identity and
\* owner as they were: no recipe appears or disappears and every recipe's
\* user_id after the call is its user_id before.
UpdateRecipeKeepsOwner ==
    [][\A p \in Procs :
         (proc[p].op = "UpdateRecipe" /\ proc[p].pc = "update_write")
         => \A r \in RecipeIds :
               /\ recipes'[r].exists = recipes[r].exists
               /\ recipes'[r].user_id = recipes[r].user_id]_vars

\* C25: every Purchase row InitializePayment creates for a recipe carries
\* as amount the recipe's price at that moment, whatever amount the request
\* names.
PurchaseAmountIsPrice ==
    [][\A p \in Procs :
         (proc[p].op = "InitializePayment" /\ proc[p].pc = "pay_create"
            /\ proc'[p].pc = "pay_provider")
         => \A x \in purchases' \ purchases :
               x.amount = recipes[x.recipe_id].price]_vars

====
